---- MODULE Spec2Model ----
(***************************************************************************)
(* Model of the fossyl Express runtime adapter.                            *)
(*                                                                         *)
(*   Spec      : the per-request execution pipeline of createHandler /     *)
(*               executeRoute (packages/express/src/handlers.ts), the      *)
(*               AsyncLocalStorage request context (context.ts), the error *)
(*               mapping of handleError (errors.ts) and the Kysely         *)
(*               database adapter's withTransaction / withClient.          *)
(*   RequestSpec : one request followed through the same pipeline, over    *)
(*               every route shape.                                        *)
(*   GenSpec   : one request through the Express application emitted by    *)
(*               the code generator (middleware factories, route handler,  *)
(*               global error handler).                                    *)
(*   EndpointSpec : route construction by createEndpoint (core router.ts).  *)
(*   RouteSpec : route registration (sortRoutes, groupRoutes, register)    *)
(*               and Express dispatch over the mounted sub-routers.        *)
(***************************************************************************)
EXTENDS Integers, Sequences, FiniteSets, TLC

VARIABLES
  database,    \* options.database: is an adapter configured, and its defaultTransaction
  pc,          \* position of each request's pipeline
  rtype,       \* route.type of the route the request was matched to
  headers,     \* req.headers of the request
  rawBody,     \* req.body of the request
  query,       \* req.query of the request, and whether the route has a queryValidator
  requestId,   \* ctx.requestId created by createHandler
  nextId,      \* source of fresh request ids (crypto.randomUUID)
  store,       \* AsyncLocalStorage: the store seen by each request's async execution
  observed,    \* requestIds returned by getContext() calls made during each request
  auth,        \* executeRoute's local const auth
  body,        \* executeRoute's local const body
  log,         \* calls made by executeRoute for each request, in order
  stageIx,     \* index of the next statement of the request's switch case
  wrapper,     \* resource wrapper the handler was run in
  handle,      \* database handle the handler's writes go through
  pending,     \* writes buffered in the request's open transaction
  written,     \* rows the request's handler has written through its handle
  table,       \* committed rows of the database
  outcome,     \* how the promise returned by requestContext.run settled
  response,    \* response written to res
  metricsLog,  \* the options.metrics callbacks createHandler has called for the request
  registered,  \* has register() been called on the adapter
  sorted,      \* sortRoutes(routes) as computed by register()
  mounted,     \* the sub-routers mounted on the app, in app.use order
  lastReq,     \* the last request dispatched by the app
  handledBy,   \* the route whose handler answered lastReq
  genPc,       \* generated app: position of the request in its middleware chain
  genWrap,     \* generated app: the wrapResponses option it was generated with
  genRoute,    \* generated app: the route the request was matched to
  genReq,      \* generated app: headers, body and query of the request
  genIx,       \* generated app: index of the next middleware of the chain
  genLocals,   \* generated app: req.fossylAuth, req.fossylBody, req.fossylQuery
  genError,    \* generated app: the error handed to next(error)
  genLog,      \* generated app: calls made for the request, in order
  genResponse, \* generated app: response written to res
  declared,    \* the last createEndpoint(path).<verb>(config) call and what it gave
  aborted,     \* has the transport aborted the request (client disconnected)
  abortAt,     \* number of calls the pipeline had made when the abort happened
  given,       \* the route collection last handed to the two sort functions
  liveOrder,   \* sortRoutes(given), the order the live dispatcher registers in
  genOrder,    \* sortRoutesBySpecificity(given), the order the generator emits in
  grouped,     \* groupRoutes(given)
  regrouped,   \* groupRoutes of the routes of grouped, taken group by group
  calls,       \* the route lists given to the register() calls made on one adapter
  stack,       \* the app's middleware stack those calls built
  outsideSeen  \* getContext() calls made outside any request: contexts created so far, requestId returned

pipelineVars == <<database, pc, rtype, headers, rawBody, query, requestId, nextId, store,
                  observed, auth, body, log, stageIx, wrapper, handle, pending,
                  written, table, outcome, response, metricsLog>>
routingVars == <<registered, sorted, mounted, lastReq, handledBy>>
genVars == <<genPc, genWrap, genRoute, genReq, genIx, genLocals, genError, genLog,
             genResponse>>
auxVars == <<outsideSeen, declared, aborted, abortAt>>
orderVars == <<given, liveOrder, genOrder, grouped, regrouped, calls, stack>>
otherVars == <<routingVars, genVars, auxVars, orderVars>>
vars == <<database, pc, rtype, headers, rawBody, query, requestId, nextId, store,
          observed, auth, body, log, stageIx, wrapper, handle, pending,
          written, table, outcome, response, metricsLog, registered, sorted, mounted, lastReq,
          handledBy, genPc, genWrap, genRoute, genReq, genIx, genLocals, genError,
          genLog, genResponse, outsideSeen, declared, aborted, abortAt, given,
          liveOrder, genOrder, grouped, regrouped, calls, stack>>

----------------------------------------------------------------------------
(* Bounds and input sets                                                   *)

\* rows one handler execution writes at most
MaxWrites == 2

\* the requests in flight (two, served concurrently)
Reqs == {"r1", "r2"}

\* the async executions of the process: one per request, and the code that
\* runs outside any request (module initialisation, timers set at startup)
Execs == Reqs \cup {"main"}

None == "none"

RouteTypes == {"open", "authenticated", "validated", "full"}

\* req.headers: with or without the marker the authenticator requires
Headers == {"token:u1", "missing"}

\* req.body: a body the validator accepts as is, one it accepts after
\* stripping an unknown key, and one it rejects
RawBodies == {"name:a", "name:a,extra:1", "bad"}

\* req.query, and whether the route was declared with a queryValidator:
\* a query the validator accepts as is, one it accepts after stripping an
\* unknown key, and one it rejects
NoQuery == [validator |-> FALSE, raw |-> "page:1"]
QueryOptions ==
  {NoQuery} \cup [validator : {TRUE}, raw : {"page:1", "page:1,extra:1", "bad"}]

\* options.database of expressAdapter(options)
DatabaseOptions ==
  { [present |-> FALSE, defaultTransaction |-> FALSE],
    [present |-> TRUE, defaultTransaction |-> FALSE],
    [present |-> TRUE, defaultTransaction |-> TRUE] }

----------------------------------------------------------------------------
(* errors.ts                                                               *)

ERROR_CODES ==
  [ AUTHENTICATION_REQUIRED |-> 1001, AUTHENTICATION_FAILED |-> 1002,
    INVALID_TOKEN |-> 1003, VALIDATION_FAILED |-> 2001,
    INVALID_REQUEST_BODY |-> 2002, INVALID_QUERY_PARAMS |-> 2003,
    NOT_FOUND |-> 3001, CONFLICT |-> 3002, INTERNAL_ERROR |-> 5001 ]

\* JSON values of the envelope's success field: JSON distinguishes the
\* string "true" from the boolean true
JsonString(v) == [json |-> "string", value |-> v]
JsonBoolean(v) == [json |-> "boolean", value |-> v]

NoResponse ==
  [status |-> 0, success |-> JsonString("none"), type |-> None, code |-> 0,
   message |-> None, data |-> None]

\* the message each error carries (Error.prototype.message)
MessageOf(kind) ==
  CASE kind = "AuthenticationError" -> "Invalid token"
    [] kind = "ValidationError" -> "Invalid request body"
    [] kind = "ZodError" -> "Required at name"
    [] kind = "ConflictError" -> "Email already registered"
    [] OTHER -> "connect ECONNREFUSED db:5432"

\* createErrorResponse(code, message, details) sent with res.status(status)
createErrorResponse(status, code, message) ==
  [status |-> status, success |-> JsonString("false"), type |-> None,
   code |-> code, message |-> message, data |-> None]

\* handleError(error, res, logger): the instanceof chain
handleError(kind) ==
  IF kind = "AuthenticationError"
    THEN createErrorResponse(401, ERROR_CODES.AUTHENTICATION_FAILED, MessageOf(kind))
  ELSE IF kind = "ValidationError"
    THEN createErrorResponse(400, ERROR_CODES.VALIDATION_FAILED, MessageOf(kind))
  ELSE createErrorResponse(500, ERROR_CODES.INTERNAL_ERROR, "Internal server error")

\* data.typeName of a handler result
TypeName(data) ==
  CASE data = "User:1" -> "User"
    [] data = "Ping:2" -> "Ping"
    [] OTHER -> None

\* the envelope built with a fixed type tag
wrapResponseFixedType(data) ==
  [status |-> 200, success |-> JsonString("true"), type |-> "Response",
   code |-> 0, message |-> None, data |-> data]

\* wrapResponse(data) sent with res.json (status 200):
\* { success: 'true', type: data.typeName, data }
wrapResponse(data) ==
  [status |-> 200, success |-> JsonString("true"), type |-> TypeName(data),
   code |-> 0, message |-> None, data |-> data]

----------------------------------------------------------------------------
(* The user-supplied functions of a route                                  *)

\* route.authenticator(headers): the Auth value it resolves to, or None when
\* it rejects
Authenticate(h) == IF h = "token:u1" THEN "userId:u1" ELSE None

\* route.validator(raw), e.g. zodValidator(schema): schema.parse returns the
\* parsed value (unknown keys stripped), or throws
Validate(raw) ==
  IF raw = "bad" THEN None
  ELSE IF raw = "name:a,extra:1" THEN "name:a"
  ELSE raw

\* route.queryValidator(raw): the parsed query, or None when it throws
ValidateQuery(raw) ==
  IF raw = "bad" THEN None
  ELSE IF raw = "page:1,extra:1" THEN "page:1"
  ELSE raw

\* errors an authenticator may reject with
AuthErrors == {"AuthenticationError", "Error"}

\* errors a body validator may throw: a hand-written validator throwing the
\* adapter's ValidationError, or zodValidator, whose schema.parse throws a
\* ZodError
ValidatorErrors == {"ValidationError", "ZodError"}

\* errors a handler may throw: the adapter's two error classes, a plain
\* Error, and an application error class signalling a conflict (the adapter
\* exports no class for ERROR_CODES.CONFLICT)
HandlerErrors == {"AuthenticationError", "ValidationError", "Error", "ConflictError"}

\* the ResponseData a handler returns: { typeName: 'User', id: 1 } on one
\* route, { typeName: 'Ping', id: 2 } on the other
HandlerResult(r) == IF r = "r1" THEN "User:1" ELSE "Ping:2"

----------------------------------------------------------------------------
(* handlers.ts: executeRoute                                               *)

\* the 'full' case with its first two statements exchanged
RouteStagesValidatorFirst(type) ==
  CASE type = "full" -> <<"validator", "authenticator", "handler">>
    [] type = "authenticated" -> <<"authenticator", "handler">>
    [] type = "validated" -> <<"validator", "handler">>
    [] OTHER -> <<"handler">>

\* the statements of each case of the switch on route.type, in order
RouteStages(type) ==
  CASE type = "full" -> <<"authenticator", "validator", "handler">>
    [] type = "authenticated" -> <<"authenticator", "handler">>
    [] type = "validated" -> <<"validator", "handler">>
    [] OTHER -> <<"handler">>

\* the wrapper chosen by the adapter's defaultTransaction option
WrapperByDefaultTransaction(type, db) ==
  IF ~db.present THEN "direct"
  ELSE IF db.defaultTransaction THEN "withTransaction"
  ELSE "withClient"

\* options.database ? options.database.withTransaction/withClient(...) : route.handler(...)
Wrapper(type, db) ==
  IF ~db.present THEN "direct"
  ELSE IF type \in {"full", "validated"} THEN "withTransaction"
  ELSE "withClient"

\* value returned by a call of fn, as recorded in the log
Returned(r, fn) ==
  LET ix == { i \in 1..Len(log[r]) : log[r][i].fn = fn /\ log[r][i].ev = "return" }
  IN IF ix = {} THEN None ELSE log[r][CHOOSE i \in ix : TRUE].val[1]

\* the 'full' case passing body and auth in the wrong order
HandlerArgsSwapped(type, a, b) ==
  CASE type = "full" -> <<"params", b, a>>
    [] type = "authenticated" -> <<"params", a>>
    [] type = "validated" -> <<"params", b>>
    [] OTHER -> <<"params">>

\* the argument list of the route.handler(...) call of each case, from the
\* case's local constants auth and body
HandlerArgs(type, a, b) ==
  CASE type = "full" -> <<"params", a, b>>
    [] type = "authenticated" -> <<"params", a>>
    [] type = "validated" -> <<"params", b>>
    [] OTHER -> <<"params">>

\* const params = { url: req.params, query: req.query }
Params(r) == [url |-> "url", query |-> query[r].raw]

Stage(r) ==
  IF stageIx[r] <= Len(RouteStages(rtype[r]))
    THEN RouteStages(rtype[r])[stageIx[r]] ELSE None

Event(ev, fn, val) == [ev |-> ev, fn |-> fn, val |-> val]

----------------------------------------------------------------------------
(* context.ts: the AsyncLocalStorage request context                       *)

\* the context kept in one module-level variable instead of an
\* AsyncLocalStorage: every execution sees the context set last
RequestContextRunGlobal(st, r, ctx) == [t \in Execs |-> ctx]

\* requestContext.run(ctx, fn): fn and every continuation it spawns see ctx;
\* the store of every other async execution is untouched
RequestContextRun(st, r, ctx) == [st EXCEPT ![r] = ctx]

\* requestContext.getStore() on the async execution of request r
GetStore(r) == store[r]

\* getContext() falling back to the context created last when the
\* execution has none
getContextOrLast(r) == IF GetStore(r) = 0 THEN nextId - 1 ELSE GetStore(r)

\* getContext() (and getRequestId(), getLogger(), which read it) called by
\* code running for request r: the requestId of the context it returns,
\* 0 standing for the thrown 'No request context available'
getContext(r) == GetStore(r)

\* the authenticator and the handler of the modelled routes call
\* getRequestId() each time they run after a suspension
Observe(r) == [observed EXCEPT ![r] = @ \cup {getContext(r)}]

----------------------------------------------------------------------------
(* Kysely adapter: withTransaction / withClient                            *)

\* fn handed the base client instead of the opened Transaction
WithTransactionHandleBaseClient(r) == [inTransaction |-> FALSE, owner |-> None]

\* the handle fn's database operations go through inside withTransaction:
\* the Transaction opened by client.transaction().execute
WithTransactionHandle(r) == [inTransaction |-> TRUE, owner |-> r]

\* the handle inside withClient: the base client
WithClientHandle(r) == [inTransaction |-> FALSE, owner |-> None]

NoHandle == [inTransaction |-> FALSE, owner |-> "nohandle"]

\* the transaction context kept in one module-level variable instead of an
\* AsyncLocalStorage
TransactionContextRunGlobal(st, r, h) == [t \in Reqs |-> h]

\* transactionContext.run({ trx, inTransaction }, () => fn(ctx)): fn and its
\* continuations see the handle, no other async execution does
TransactionContextRun(st, r, h) == [st EXCEPT ![r] = h]

\* getTransaction() called by code running for request r: ctx.trx of
\* transactionContext.getStore(); NoHandle stands for the thrown
\* 'No database context available'
getTransaction(r) == handle[r]

\* createHandler: const ctx = { requestId, logger, databaseContext: undefined };
\* the field is readonly and no statement of the adapter assigns it, in or
\* out of a wrapper: the databaseContext field of the context with this id
DatabaseContextOf(id) == NoHandle

NoRequestContext == [inTransaction |-> FALSE, owner |-> "No request context available"]
NoDatabaseContext == [inTransaction |-> FALSE, owner |-> "No database context available"]

\* getDb() called by code running for request r: the handle it returns, or
\* the error it throws
getDb(r) ==
  IF getContext(r) = 0 THEN NoRequestContext
  ELSE IF DatabaseContextOf(getContext(r)) = NoHandle THEN NoDatabaseContext
  ELSE DatabaseContextOf(getContext(r))

\* the requests a route of each type is exercised with: a body only on the
\* verbs that carry one (POST/PUT, types validated and full), headers with
\* or without the auth marker only where an authenticator reads them
RequestFor(t, h, b) ==
  /\ (t \in {"validated", "full"}) <=> (b # None)
  /\ (t \in {"open", "validated"}) => (h = "missing")

----------------------------------------------------------------------------
(* Routes: path templates as sequences of segments                         *)

\* routes one register() call is given at most
MaxRoutes == 3

Lit(n) == [param |-> FALSE, name |-> n]
Par(n) == [param |-> TRUE, name |-> n]

\* the path templates routes are declared with: "/", "/users", "/list",
\* "/users/list", "/users/:id", "/users/:userId", "/:id", "/:id/list",
\* "/:userId/list", "/:id/:userId"
Templates ==
  { <<>>, <<Lit("users")>>, <<Lit("list")>>,
    <<Lit("users"), Lit("list")>>, <<Lit("users"), Par("id")>>,
    <<Lit("users"), Par("userId")>>, <<Par("id")>>,
    <<Par("id"), Lit("list")>>, <<Par("userId"), Lit("list")>>,
    <<Par("id"), Par("userId")>> }

Methods == {"GET", "POST"}

Routes == [method : Methods, path : Templates]

\* route collections: no two routes with the same (method, path)
RouteSeqs ==
  UNION { { rs \in [1..n -> Routes] : \A i, j \in 1..n : rs[i] = rs[j] => i = j }
          : n \in 0..MaxRoutes }

\* incoming request paths, as sequences of concrete segments
PathValues == {"users", "list", "42"}
RequestPaths == {<<>>} \cup { <<a>> : a \in PathValues }
                  \cup { <<a, b>> : a \in PathValues, b \in PathValues }
Requests == [method : Methods, path : RequestPaths]

NoRequest == [method |-> None, path |-> <<>>]
NoRoute == [method |-> None, path |-> <<>>]
\* the 404 handler installed by register()
NotFound == [method |-> "404", path |-> <<>>]

----------------------------------------------------------------------------
(* sorting.ts: sortRoutes                                                  *)

\* path.split('/') of the template's path string: a leading empty string,
\* then the segments ("/" splits into two empty strings)
Split(path) == IF path = <<>> THEN <<Lit(""), Lit("")>> ELSE <<Lit("")>> \o path

\* seg.startsWith(':')
IsParam(seg) == seg.param

\* position of a segment string in collation order: "" first, then the
\* strings that start with ':', then the literals, each alphabetically
CollationRank(seg) ==
  IF seg.param
    THEN (CASE seg.name = "id" -> 1 [] seg.name = "userId" -> 2 [] OTHER -> 3)
    ELSE (CASE seg.name = "" -> 0 [] seg.name = "list" -> 4
            [] seg.name = "users" -> 5 [] OTHER -> 6)

\* a comparison that takes all parameter names for equal
LocaleCompareParamsEqual(aSeg, bSeg) ==
  IF aSeg.param /\ bSeg.param THEN 0
  ELSE CollationRank(aSeg) - CollationRank(bSeg)

\* aSeg.localeCompare(bSeg)
LocaleCompare(aSeg, bSeg) == CollationRank(aSeg) - CollationRank(bSeg)

\* aSegments[i] ?? ''
SegAt(segs, i) == IF i <= Len(segs) THEN segs[i] ELSE Lit("")

Max(a, b) == IF a >= b THEN a ELSE b

\* the comparator without its static-before-dynamic tests
RECURSIVE CompareFromNoStaticFirst(_, _, _)
CompareFromNoStaticFirst(aSegments, bSegments, i) ==
  IF i > Max(Len(aSegments), Len(bSegments))
    THEN Len(aSegments) - Len(bSegments)
  ELSE LET aSeg == SegAt(aSegments, i)
           bSeg == SegAt(bSegments, i)
       IN IF LocaleCompare(aSeg, bSeg) # 0 THEN LocaleCompare(aSeg, bSeg)
          ELSE CompareFromNoStaticFirst(aSegments, bSegments, i + 1)

\* the body of the comparator's for loop at index i
RECURSIVE CompareFrom(_, _, _)
CompareFrom(aSegments, bSegments, i) ==
  IF i > Max(Len(aSegments), Len(bSegments))
    THEN Len(aSegments) - Len(bSegments)
  ELSE LET aSeg == SegAt(aSegments, i)
           bSeg == SegAt(bSegments, i)
       IN IF ~IsParam(aSeg) /\ IsParam(bSeg) THEN -1
          ELSE IF IsParam(aSeg) /\ ~IsParam(bSeg) THEN 1
          ELSE IF LocaleCompare(aSeg, bSeg) # 0 THEN LocaleCompare(aSeg, bSeg)
          ELSE CompareFrom(aSegments, bSegments, i + 1)

\* the comparator passed to sort
CompareRoutes(a, b) == CompareFrom(Split(a.path), Split(b.path), 1)

\* insert x into the sorted sequence s after every element that does not
\* compare greater than it
RECURSIVE InsertSorted(_, _)
InsertSorted(s, x) ==
  IF s = <<>> THEN <<x>>
  ELSE IF CompareRoutes(s[Len(s)], x) <= 0 THEN Append(s, x)
  ELSE Append(InsertSorted(SubSeq(s, 1, Len(s) - 1), x), s[Len(s)])

\* [...routes].sort(comparator): Array.prototype.sort is stable
RECURSIVE sortRoutes(_)
sortRoutes(routes) ==
  IF routes = <<>> THEN <<>>
  ELSE InsertSorted(sortRoutes(SubSeq(routes, 1, Len(routes) - 1)), routes[Len(routes)])

----------------------------------------------------------------------------
(* generator/handler-emitter.ts: sortRoutesBySpecificity                   *)

Min(a, b) == IF a <= b THEN a ELSE b

\* the body of the generator comparator's for loop at index i: only the
\* static-before-dynamic tests, over the first minLen segments
RECURSIVE SpecificityFrom(_, _, _)
SpecificityFrom(aSegments, bSegments, i) ==
  IF i > Min(Len(aSegments), Len(bSegments))
    THEN Len(aSegments) - Len(bSegments)
  ELSE IF ~IsParam(aSegments[i]) /\ IsParam(bSegments[i]) THEN -1
  ELSE IF IsParam(aSegments[i]) /\ ~IsParam(bSegments[i]) THEN 1
  ELSE SpecificityFrom(aSegments, bSegments, i + 1)

\* the comparator sortRoutesBySpecificity passes to sort
CompareSpecificity(a, b) == SpecificityFrom(Split(a.path), Split(b.path), 1)

RECURSIVE InsertBySpecificity(_, _)
InsertBySpecificity(s, x) ==
  IF s = <<>> THEN <<x>>
  ELSE IF CompareSpecificity(s[Len(s)], x) <= 0 THEN Append(s, x)
  ELSE Append(InsertBySpecificity(SubSeq(s, 1, Len(s) - 1), x), s[Len(s)])

\* [...routes].sort(comparator) with the generator's comparator
RECURSIVE sortRoutesBySpecificity(_)
sortRoutesBySpecificity(routes) ==
  IF routes = <<>> THEN <<>>
  ELSE InsertBySpecificity(sortRoutesBySpecificity(SubSeq(routes, 1, Len(routes) - 1)),
                           routes[Len(routes)])

----------------------------------------------------------------------------
(* register.ts: groupRoutes                                                *)

\* getRoutePrefix(path): the literal segments before the first named one;
\* the prefix string is '/' followed by them joined with '/'
RECURSIVE getRoutePrefix(_)
getRoutePrefix(path) ==
  IF path = <<>> \/ IsParam(Head(path)) THEN <<>>
  ELSE <<Head(path).name>> \o getRoutePrefix(Tail(path))

\* the loop over routes with a new prefix going first instead of last
RECURSIVE groupRoutesNewFirst(_)
groupRoutesNewFirst(routes) ==
  IF routes = <<>> THEN <<>>
  ELSE LET groups == groupRoutesNewFirst(SubSeq(routes, 1, Len(routes) - 1))
           route == routes[Len(routes)]
           prefix == getRoutePrefix(route.path)
           at == { g \in 1..Len(groups) : groups[g].prefix = prefix }
       IN IF at = {}
            THEN <<[prefix |-> prefix, routes |-> <<route>>]>> \o groups
            ELSE [ g \in 1..Len(groups) |->
                     IF g \in at
                       THEN [groups[g] EXCEPT !.routes = Append(@, route)]
                       ELSE groups[g] ]

\* the loop over routes: append the route to the group of its prefix, a new
\* prefix going last (Map insertion order)
RECURSIVE groupRoutes(_)
groupRoutes(routes) ==
  IF routes = <<>> THEN <<>>
  ELSE LET groups == groupRoutes(SubSeq(routes, 1, Len(routes) - 1))
           route == routes[Len(routes)]
           prefix == getRoutePrefix(route.path)
           at == { g \in 1..Len(groups) : groups[g].prefix = prefix }
       IN IF at = {}
            THEN Append(groups, [prefix |-> prefix, routes |-> <<route>>])
            ELSE [ g \in 1..Len(groups) |->
                     IF g \in at
                       THEN [groups[g] EXCEPT !.routes = Append(@, route)]
                       ELSE groups[g] ]

\* the routes of the groups, group after group
RECURSIVE Flatten(_)
Flatten(groups) ==
  IF groups = <<>> THEN <<>>
  ELSE Flatten(SubSeq(groups, 1, Len(groups) - 1)) \o groups[Len(groups)].routes

----------------------------------------------------------------------------
(* adapter.ts: register, and Express dispatch                              *)

\* route.path.slice(group.prefix.length) || '/': the prefix string is cut
\* off the path string. Cutting the one-character root prefix "/" leaves
\* the rest without its leading slash; an empty rest becomes '/'.
SubPath(path, prefix) ==
  IF prefix = <<>>
    THEN [slash |-> (path = <<>>), segs |-> path]
    ELSE [slash |-> TRUE, segs |-> SubSeq(path, Len(prefix) + 1, Len(path))]

\* the Router built for one group: router[method](subPath, createHandler(route))
MountGroup(group) ==
  [ prefix |-> group.prefix,
    layers |-> [ i \in 1..Len(group.routes) |->
                   [ method |-> group.routes[i].method,
                     subPath |-> SubPath(group.routes[i].path, group.prefix),
                     route |-> group.routes[i] ] ] ]

\* the segments of a path template match the segments of a request path
MatchSegs(tmpl, path) ==
  /\ Len(tmpl) = Len(path)
  /\ \A i \in 1..Len(tmpl) : IsParam(tmpl[i]) \/ tmpl[i].name = path[i]

\* Express matches a route layer against the path left after the mount
\* prefix, which always starts with '/': a sub-path without a leading slash
\* matches nothing
LayerMatches(layer, req, rest) ==
  /\ layer.method = req.method
  /\ layer.subPath.slash
  /\ MatchSegs(layer.subPath.segs, rest)

\* app.use(prefix, router): the router sees the requests whose path starts
\* with the prefix, with the prefix stripped
PrefixMatches(prefix, path) ==
  /\ Len(prefix) <= Len(path)
  /\ \A i \in 1..Len(prefix) : prefix[i] = path[i]

\* the first layer of the router that matches, 0 if none
FirstLayer(router, req) ==
  LET rest == SubSeq(req.path, Len(router.prefix) + 1, Len(req.path))
      hits == { i \in 1..Len(router.layers) : LayerMatches(router.layers[i], req, rest) }
  IN IF hits = {} THEN 0 ELSE CHOOSE i \in hits : \A j \in hits : i <= j

\* the app's stack: the routers in mount order, then the 404 handler. The
\* first router with a matching layer answers (createHandler never calls
\* next); a router with no matching layer passes the request on.
DispatchMounted(routers, req) ==
  LET hits == { g \in 1..Len(routers) :
                  /\ PrefixMatches(routers[g].prefix, req.path)
                  /\ FirstLayer(routers[g], req) # 0 }
  IN IF hits = {} THEN NotFound
     ELSE LET g == CHOOSE h \in hits : \A j \in hits : h <= j
          IN routers[g].layers[FirstLayer(routers[g], req)].route

\* the first route of a list whose method and path template match the
\* request, NotFound if none
FirstMatch(routes, req) ==
  LET hits == { i \in 1..Len(routes) :
                  routes[i].method = req.method /\ MatchSegs(routes[i].path, req.path) }
  IN IF hits = {} THEN NotFound
     ELSE routes[CHOOSE i \in hits : \A j \in hits : i <= j]

----------------------------------------------------------------------------
(* Initial state                                                           *)

PipelineInit ==
  /\ pc = [r \in Reqs |-> "idle"]
  /\ rtype = [r \in Reqs |-> None]
  /\ headers = [r \in Reqs |-> None]
  /\ rawBody = [r \in Reqs |-> None]
  /\ query = [r \in Reqs |-> NoQuery]
  /\ requestId = [r \in Reqs |-> 0]
  /\ nextId = 1
  /\ store = [r \in Execs |-> 0]
  /\ observed = [r \in Reqs |-> {}]
  /\ auth = [r \in Reqs |-> None]
  /\ body = [r \in Reqs |-> None]
  /\ log = [r \in Reqs |-> <<>>]
  /\ stageIx = [r \in Reqs |-> 1]
  /\ wrapper = [r \in Reqs |-> None]
  /\ handle = [r \in Reqs |-> NoHandle]
  /\ pending = [r \in Reqs |-> {}]
  /\ written = [r \in Reqs |-> {}]
  /\ table = {}
  /\ outcome = [r \in Reqs |-> [kind |-> None, val |-> None]]
  /\ response = [r \in Reqs |-> NoResponse]
  /\ metricsLog = [r \in Reqs |-> <<>>]

RoutingIdle ==
  /\ registered = FALSE
  /\ sorted = <<>>
  /\ mounted = <<>>
  /\ lastReq = NoRequest
  /\ handledBy = NoRoute

\* a property of a config object: not there, there with the value
\* undefined, or there with a function
Props == {"absent", "undefined", "function"}

\* the config objects passed to get/post/put/delete (handler always given):
\* written as an object literal in the call (fresh) or held in a variable
Configs ==
  [fresh : BOOLEAN, authenticator : Props, validator : Props, queryValidator : Props]

Verbs == {"GET", "POST", "PUT", "DELETE"}

\* the overload signatures of get/del and of post/put, as the TypeScript
\* compiler resolves them: authenticator and queryValidator are either a
\* function or optional-never (absent or undefined) in some overload;
\* validator is required by every post/put overload and named by no get/del
\* overload, where only an object literal is checked for excess properties
TypeChecks(verb, config) ==
  IF verb \in {"POST", "PUT"}
    THEN config.validator = "function"
    ELSE config.fresh => config.validator = "absent"

\* the implementation of get/post/put/del: the type is decided by
\* "authenticator" in config and the route is { ...config, type, path, method }
createEndpoint(verb, config) ==
  [ method |-> verb,
    type |-> IF config.authenticator # "absent"
               THEN (IF verb \in {"POST", "PUT"} THEN "full" ELSE "authenticated")
               ELSE (IF verb \in {"POST", "PUT"} THEN "validated" ELSE "open"),
    authenticator |-> config.authenticator,
    validator |-> config.validator,
    queryValidator |-> config.queryValidator ]

NoConfig ==
  [fresh |-> FALSE, authenticator |-> "absent", validator |-> "absent",
   queryValidator |-> "absent"]
NoEndpointRoute ==
  [method |-> None, type |-> None, authenticator |-> "absent",
   validator |-> "absent", queryValidator |-> "absent"]
NoDeclaration ==
  [verb |-> None, config |-> NoConfig, outcome |-> None, route |-> NoEndpointRoute]

NoGenRoute == [type |-> None, queryValidator |-> FALSE, sharing |-> 0]
NoGenReq == [headers |-> None, body |-> None, query |-> None]
NoLocals == [fossylAuth |-> None, fossylBody |-> None, fossylQuery |-> None]

GenIdle ==
  /\ genPc = "idle"
  /\ genWrap = TRUE
  /\ genRoute = NoGenRoute
  /\ genReq = NoGenReq
  /\ genIx = 0
  /\ genLocals = NoLocals
  /\ genError = None
  /\ genLog = <<>>
  /\ genResponse = NoResponse
  /\ outsideSeen = {}
  /\ declared = NoDeclaration
  /\ aborted = [r \in Reqs |-> FALSE]
  /\ abortAt = [r \in Reqs |-> 0]
  /\ given = <<>>
  /\ liveOrder = <<>>
  /\ genOrder = <<>>
  /\ grouped = <<>>
  /\ regrouped = <<>>
  /\ calls = <<>>
  /\ stack = <<>>

Init ==
  /\ database \in DatabaseOptions
  /\ PipelineInit
  /\ RoutingIdle
  /\ GenIdle

----------------------------------------------------------------------------
(* createHandler: the request handler                                      *)

\* createHandler's callback up to the call of executeRoute: a fresh
\* requestId, the context object, requestContext.run(ctx, ...); the route
\* and the request are drawn from the given query options
StartWith(r, queries) ==
  /\ pc[r] = "idle"
  /\ \E t \in RouteTypes, h \in Headers, b \in RawBodies \cup {None}, q \in queries :
       /\ RequestFor(t, h, b)
       /\ rtype' = [rtype EXCEPT ![r] = t]
       /\ headers' = [headers EXCEPT ![r] = h]
       /\ rawBody' = [rawBody EXCEPT ![r] = b]
       /\ query' = [query EXCEPT ![r] = q]
  /\ requestId' = [requestId EXCEPT ![r] = nextId]
  /\ nextId' = nextId + 1
  /\ metricsLog' = [metricsLog EXCEPT ![r] = Append(@, "onRequestStart")]
  /\ store' = RequestContextRun(store, r, nextId)
  /\ pc' = [pc EXCEPT ![r] = "running"]
  /\ UNCHANGED <<database, observed, log, stageIx, wrapper, handle, pending,
                 written, table, outcome, response>>
  /\ UNCHANGED <<auth, body>>
  /\ UNCHANGED otherVars

\* a request to a route declared without a queryValidator
Start(r) == StartWith(r, {NoQuery})

\* a request to a route declared with or without a queryValidator
StartAny(r) == StartWith(r, QueryOptions)

\* const auth = await route.authenticator(req.headers): the call
CallAuthenticator(r) ==
  /\ pc[r] = "running"
  /\ Stage(r) = "authenticator"
  /\ log' = [log EXCEPT ![r] = Append(@, Event("call", "authenticator", <<headers[r]>>))]
  /\ pc' = [pc EXCEPT ![r] = "authenticating"]
  /\ UNCHANGED <<database, rtype, headers, rawBody, requestId, nextId, store,
                 observed, stageIx, wrapper, handle, pending, written, table,
                 outcome, response>>
  /\ UNCHANGED <<auth, body, query>>
  /\ UNCHANGED metricsLog
  /\ UNCHANGED otherVars

\* the authenticator's promise resolves: the await resumes with the value
AuthResolve(r) ==
  /\ pc[r] = "authenticating"
  /\ Authenticate(headers[r]) # None
  /\ log' = [log EXCEPT ![r] =
               Append(@, Event("return", "authenticator", <<Authenticate(headers[r])>>))]
  /\ stageIx' = [stageIx EXCEPT ![r] = @ + 1]
  /\ pc' = [pc EXCEPT ![r] = "running"]
  /\ observed' = Observe(r)
  /\ UNCHANGED <<database, rtype, headers, rawBody, requestId, nextId, store,
                 wrapper, handle, pending, written, table, outcome,
                 response>>
  /\ auth' = [auth EXCEPT ![r] = Authenticate(headers[r])]
  /\ UNCHANGED <<body, query>>
  /\ UNCHANGED metricsLog
  /\ UNCHANGED otherVars

\* the authenticator's promise rejects: executeRoute's promise rejects with
\* the same error
AuthReject(r) ==
  /\ pc[r] = "authenticating"
  /\ Authenticate(headers[r]) = None
  /\ \E k \in AuthErrors :
       /\ log' = [log EXCEPT ![r] = Append(@, Event("throw", "authenticator", <<k>>))]
       /\ outcome' = [outcome EXCEPT ![r] = [kind |-> "error", val |-> k]]
  /\ pc' = [pc EXCEPT ![r] = "settled"]
  /\ observed' = Observe(r)
  /\ UNCHANGED <<database, rtype, headers, rawBody, requestId, nextId, store,
                 stageIx, wrapper, handle, pending, written, table,
                 response>>
  /\ UNCHANGED <<auth, body, query>>
  /\ UNCHANGED metricsLog
  /\ UNCHANGED otherVars

\* const body = route.validator(req.body): a synchronous call that returns
\* the validated body or throws
RunValidator(r) ==
  /\ pc[r] = "running"
  /\ Stage(r) = "validator"
  /\ IF Validate(rawBody[r]) # None
       THEN /\ log' = [log EXCEPT ![r] =
                         @ \o << Event("call", "validator", <<rawBody[r]>>),
                                 Event("return", "validator", <<Validate(rawBody[r])>>) >>]
            /\ stageIx' = [stageIx EXCEPT ![r] = @ + 1]
            /\ body' = [body EXCEPT ![r] = Validate(rawBody[r])]
            /\ UNCHANGED <<pc, outcome>>
       ELSE /\ \E k \in ValidatorErrors :
                 /\ log' = [log EXCEPT ![r] =
                              @ \o << Event("call", "validator", <<rawBody[r]>>),
                                      Event("throw", "validator", <<k>>) >>]
                 /\ outcome' = [outcome EXCEPT ![r] = [kind |-> "error", val |-> k]]
            /\ pc' = [pc EXCEPT ![r] = "settled"]
            /\ UNCHANGED <<stageIx, body>>
  /\ UNCHANGED <<database, rtype, headers, rawBody, requestId, nextId, store,
                 observed, wrapper, handle, pending, written, table, response>>
  /\ UNCHANGED <<auth, query>>
  /\ UNCHANGED metricsLog
  /\ UNCHANGED otherVars

\* the wrapper entered as the first statement of the case, around the
\* authenticator and the validator
EnterWrapperAtOnce(r) ==
  /\ pc[r] = "running"
  /\ Stage(r) # None
  /\ LET w == Wrapper(rtype[r], database) IN
       /\ wrapper' = [wrapper EXCEPT ![r] = w]
       /\ IF w = "withTransaction"
            THEN /\ pc' = [pc EXCEPT ![r] = "beginning"]
                 /\ UNCHANGED <<log, handle, observed>>
            ELSE /\ pc' = [pc EXCEPT ![r] = "invoking"]
                 /\ log' = [log EXCEPT ![r] =
                              Append(@, Event("call", "handler", HandlerArgs(rtype[r], auth[r], body[r])))]
                 /\ handle' = IF w = "withClient"
                                THEN TransactionContextRun(handle, r, WithClientHandle(r))
                                ELSE handle
                 /\ observed' = Observe(r)
  /\ UNCHANGED <<database, rtype, headers, rawBody, requestId, nextId, store,
                 stageIx, pending, written, table, outcome, response>>
  /\ UNCHANGED <<auth, body, query>>
  /\ UNCHANGED metricsLog
  /\ UNCHANGED otherVars

\* the return statement of the case: the handler is called directly, inside
\* withClient (which calls fn at once), or inside withTransaction (which
\* first opens the transaction)
EnterWrapper(r) ==
  /\ pc[r] = "running"
  /\ Stage(r) = "handler"
  /\ LET w == Wrapper(rtype[r], database) IN
       /\ wrapper' = [wrapper EXCEPT ![r] = w]
       /\ IF w = "withTransaction"
            THEN /\ pc' = [pc EXCEPT ![r] = "beginning"]
                 /\ UNCHANGED <<log, handle, observed>>
            ELSE /\ pc' = [pc EXCEPT ![r] = "invoking"]
                 /\ log' = [log EXCEPT ![r] =
                              Append(@, Event("call", "handler", HandlerArgs(rtype[r], auth[r], body[r])))]
                 /\ handle' = IF w = "withClient"
                                THEN TransactionContextRun(handle, r, WithClientHandle(r))
                                ELSE handle
                 /\ observed' = Observe(r)
  /\ UNCHANGED <<database, rtype, headers, rawBody, requestId, nextId, store,
                 stageIx, pending, written, table, outcome, response>>
  /\ UNCHANGED <<auth, body, query>>
  /\ UNCHANGED metricsLog
  /\ UNCHANGED otherVars

\* client.transaction().execute(cb): the transaction is open, cb runs fn
\* inside transactionContext.run({trx, inTransaction: true}, ...)
BeginTransaction(r) ==
  /\ pc[r] = "beginning"
  /\ handle' = TransactionContextRun(handle, r, WithTransactionHandle(r))
  /\ log' = [log EXCEPT ![r] =
               Append(@, Event("call", "handler", HandlerArgs(rtype[r], auth[r], body[r])))]
  /\ pc' = [pc EXCEPT ![r] = "invoking"]
  /\ observed' = Observe(r)
  /\ UNCHANGED <<database, rtype, headers, rawBody, requestId, nextId, store,
                 stageIx, wrapper, pending, written, table, outcome,
                 response>>
  /\ UNCHANGED <<auth, body, query>>
  /\ UNCHANGED metricsLog
  /\ UNCHANGED otherVars

\* the handler performs a write through the handle of its scope
\* (getTransaction()): buffered in the transaction, or applied at once by
\* the base client
HandlerWrite(r) ==
  /\ pc[r] = "invoking"
  /\ getTransaction(r) # NoHandle
  /\ Cardinality(written[r]) < MaxWrites
  /\ LET row == <<r, Cardinality(written[r]) + 1>> IN
       /\ written' = [written EXCEPT ![r] = @ \cup {row}]
       /\ IF getTransaction(r).inTransaction
            THEN /\ pending' = [pending EXCEPT ![getTransaction(r).owner] = @ \cup {row}]
                 /\ UNCHANGED table
            ELSE /\ table' = table \cup {row}
                 /\ UNCHANGED pending
  /\ observed' = Observe(r)
  /\ UNCHANGED <<database, pc, rtype, headers, rawBody, requestId, nextId, store,
                 log, stageIx, wrapper, handle, outcome, response>>
  /\ UNCHANGED <<auth, body, query>>
  /\ UNCHANGED metricsLog
  /\ UNCHANGED otherVars

\* the handler's promise resolves with its ResponseData
HandlerReturn(r) ==
  /\ pc[r] = "invoking"
  /\ log' = [log EXCEPT ![r] = Append(@, Event("return", "handler", <<HandlerResult(r)>>))]
  /\ IF wrapper[r] = "withTransaction"
       THEN /\ pc' = [pc EXCEPT ![r] = "committing"]
            /\ UNCHANGED outcome
       ELSE /\ pc' = [pc EXCEPT ![r] = "settled"]
            /\ outcome' = [outcome EXCEPT ![r] = [kind |-> "value", val |-> HandlerResult(r)]]
  /\ observed' = Observe(r)
  /\ UNCHANGED <<database, rtype, headers, rawBody, requestId, nextId, store,
                 stageIx, wrapper, handle, pending, written, table,
                 response>>
  /\ UNCHANGED <<auth, body, query>>
  /\ UNCHANGED metricsLog
  /\ UNCHANGED otherVars

\* the handler throws (its promise rejects)
HandlerThrow(r) ==
  /\ pc[r] = "invoking"
  /\ \E k \in HandlerErrors :
       /\ log' = [log EXCEPT ![r] = Append(@, Event("throw", "handler", <<k>>))]
       /\ IF wrapper[r] = "withTransaction"
            THEN /\ pc' = [pc EXCEPT ![r] = "rollingBack"]
                 /\ UNCHANGED outcome
            ELSE /\ pc' = [pc EXCEPT ![r] = "settled"]
                 /\ outcome' = [outcome EXCEPT ![r] = [kind |-> "error", val |-> k]]
  /\ observed' = Observe(r)
  /\ UNCHANGED <<database, rtype, headers, rawBody, requestId, nextId, store,
                 stageIx, wrapper, handle, pending, written, table,
                 response>>
  /\ UNCHANGED <<auth, body, query>>
  /\ UNCHANGED metricsLog
  /\ UNCHANGED otherVars

\* execute settles with cb's value whether or not the COMMIT succeeded
ExecuteSettlesValueAlways(committed, value) == [kind |-> "value", val |-> value]

\* how execute(cb) settles after cb resolved with value: it resolves with
\* the value once the COMMIT succeeded and rejects with the driver's error
\* when the COMMIT failed
ExecuteSettles(committed, value) ==
  IF committed THEN [kind |-> "value", val |-> value]
               ELSE [kind |-> "error", val |-> "CommitError"]

\* execute(cb) after cb resolved: the transaction commits and execute
\* resolves with cb's value
Commit(r) ==
  /\ pc[r] = "committing"
  /\ table' = table \cup pending[r]
  /\ pending' = [pending EXCEPT ![r] = {}]
  /\ outcome' = [outcome EXCEPT ![r] = ExecuteSettles(TRUE, Returned(r, "handler"))]
  /\ pc' = [pc EXCEPT ![r] = "settled"]
  /\ UNCHANGED <<database, rtype, headers, rawBody, requestId, nextId, store,
                 observed, log, stageIx, wrapper, handle, written, response>>
  /\ UNCHANGED <<auth, body, query>>
  /\ UNCHANGED metricsLog
  /\ UNCHANGED otherVars

\* execute(cb) after cb rejected: the transaction rolls back and execute
\* rejects with cb's error
Rollback(r) ==
  /\ pc[r] = "rollingBack"
  /\ pending' = [pending EXCEPT ![r] = {}]
  /\ outcome' = [outcome EXCEPT ![r] =
                   [kind |-> "error", val |-> log[r][Len(log[r])].val[1]]]
  /\ pc' = [pc EXCEPT ![r] = "settled"]
  /\ UNCHANGED <<database, rtype, headers, rawBody, requestId, nextId, store,
                 observed, log, stageIx, wrapper, handle, written, table,
                 response>>
  /\ UNCHANGED <<auth, body, query>>
  /\ UNCHANGED metricsLog
  /\ UNCHANGED otherVars

\* createHandler after the await: res.json(wrapResponse(result)) and
\* onRequestEnd, or the catch block's handleError(error, res, logger) and
\* onRequestError
Respond(r) ==
  /\ pc[r] = "settled"
  /\ response' = [response EXCEPT ![r] =
                    IF outcome[r].kind = "value"
                      THEN wrapResponse(outcome[r].val)
                      ELSE handleError(outcome[r].val)]
  /\ metricsLog' = [metricsLog EXCEPT ![r] =
                      Append(@, IF outcome[r].kind = "value"
                                  THEN "onRequestEnd" ELSE "onRequestError")]
  /\ pc' = [pc EXCEPT ![r] = "done"]
  /\ UNCHANGED <<database, rtype, headers, rawBody, requestId, nextId, store,
                 observed, log, stageIx, wrapper, handle, pending, written,
                 table, outcome>>
  /\ UNCHANGED <<auth, body, query>>
  /\ UNCHANGED otherVars

Next ==
  \E r \in Reqs :
    \/ Start(r)
    \/ CallAuthenticator(r)
    \/ AuthResolve(r)
    \/ AuthReject(r)
    \/ RunValidator(r)
    \/ EnterWrapper(r)
    \/ BeginTransaction(r)
    \/ HandlerWrite(r)
    \/ HandlerReturn(r)
    \/ HandlerThrow(r)
    \/ Commit(r)
    \/ Rollback(r)
    \/ Respond(r)

Spec == Init /\ [][Next]_vars

----------------------------------------------------------------------------
(* Properties of the request pipeline (checked under Spec)                 *)

Active == {"running", "authenticating", "beginning", "invoking", "committing",
           "rollingBack"}
Finished == {"settled", "done"}

Calls(r, fn, ev) == { i \in 1..Len(log[r]) : log[r][i].fn = fn /\ log[r][i].ev = ev }

\* C1: every getContext()/getRequestId()/getLogger() call made while a
\* request executes returns that request's own context, whatever the
\* interleaving with the other request.
C1_ContextIsolation ==
  \A r \in Reqs : observed[r] \subseteq {requestId[r]}

\* both requests are in their handlers at the same time and both have read
\* the context
C1_Witness ==
  /\ pc["r1"] = "invoking" /\ pc["r2"] = "invoking"
  /\ observed["r1"] # {} /\ observed["r2"] # {}
  /\ requestId["r1"] # requestId["r2"]

\* C2: on authenticated and full routes the authenticator has returned
\* before the body validator or the handler is called, a failed
\* authenticator is followed by neither, and on validated and full routes
\* the handler is called only after the validator has returned.
C2_AuthThenValidateThenInvoke ==
  \A r \in Reqs :
    /\ rtype[r] \in {"authenticated", "full"} =>
         /\ \A i \in Calls(r, "validator", "call") \cup Calls(r, "handler", "call") :
              \E j \in Calls(r, "authenticator", "return") : j < i
         /\ Calls(r, "authenticator", "throw") # {} =>
              Calls(r, "validator", "call") \cup Calls(r, "handler", "call") = {}
    /\ rtype[r] \in {"validated", "full"} =>
         \A i \in Calls(r, "handler", "call") :
           \E j \in Calls(r, "validator", "return") : j < i
    /\ \A i \in Calls(r, "authenticator", "call") :
         Calls(r, "validator", "call") \cap 1..i = {}

\* one full request ran authenticator, validator and handler, and another
\* request was stopped by its authenticator
C2_Witness ==
  \E r, q \in Reqs :
    /\ rtype[r] = "full" /\ pc[r] = "done" /\ Calls(r, "handler", "call") # {}
    /\ rtype[q] \in {"authenticated", "full"} /\ pc[q] = "done"
    /\ Calls(q, "authenticator", "throw") # {}

\* C3: on validated and full routes, when the body validator throws
\* (whatever it throws) the handler is never invoked and the response is
\* the ValidationFailed envelope: HTTP 400, code VALIDATION_FAILED.
C3_ValidatorRejectionIs400 ==
  \A r \in Reqs :
    Calls(r, "validator", "throw") # {} =>
      /\ Calls(r, "handler", "call") = {}
      /\ pc[r] = "done" =>
           /\ response[r].status = 400
           /\ response[r].code = ERROR_CODES.VALIDATION_FAILED

\* C4: on authenticated and full routes, when the authenticator fails
\* (whatever it raises) the handler is never invoked and the response is
\* the AuthenticationFailed envelope: HTTP 401, code AUTHENTICATION_FAILED.
C4_AuthFailureIs401 ==
  \A r \in Reqs :
    Calls(r, "authenticator", "throw") # {} =>
      /\ Calls(r, "handler", "call") = {}
      /\ pc[r] = "done" =>
           /\ response[r].status = 401
           /\ response[r].code = ERROR_CODES.AUTHENTICATION_FAILED

ExpectedArgs(r) ==
  CASE rtype[r] = "full" ->
         <<"params", Returned(r, "authenticator"), Returned(r, "validator")>>
    [] rtype[r] = "authenticated" -> <<"params", Returned(r, "authenticator")>>
    [] rtype[r] = "validated" -> <<"params", Returned(r, "validator")>>
    [] OTHER -> <<"params">>

\* C10: a request that passes authentication and validation has its handler
\* invoked exactly once, with (params), (params, auth), (params, body) or
\* (params, auth, body) by route type, auth being the authenticator's
\* return value and body the validator's return value.
C10_HandlerCalledOnceWithArgs ==
  \A r \in Reqs :
    /\ Cardinality(Calls(r, "handler", "call")) <= 1
    /\ \A i \in Calls(r, "handler", "call") : log[r][i].val = ExpectedArgs(r)
    /\ ( /\ pc[r] \in Finished
         /\ Calls(r, "authenticator", "throw") = {}
         /\ Calls(r, "validator", "throw") = {} ) =>
         Cardinality(Calls(r, "handler", "call")) = 1

\* a full request whose raw body differs from the validated body has had
\* its handler called, and so has an authenticated request
C10_Witness ==
  \E r, q \in Reqs :
    /\ rtype[r] = "full" /\ rawBody[r] = "name:a,extra:1" /\ pc[r] = "done"
    /\ Calls(r, "handler", "call") # {}
    /\ rtype[q] = "authenticated" /\ pc[q] = "done"
    /\ Calls(q, "handler", "call") # {}

C19_TransactionHandleOwned ==
  \A r \in Reqs :
    /\ (pc[r] = "invoking" /\ wrapper[r] = "withTransaction") =>
         getTransaction(r) = [inTransaction |-> TRUE, owner |-> r]
    /\ \A row \in pending[r] : row[1] = r

\* both handlers are inside withTransaction at the same time and both have
\* written through getTransaction()
C19_Witness ==
  /\ pc["r1"] = "invoking" /\ wrapper["r1"] = "withTransaction"
  /\ pc["r2"] = "invoking" /\ wrapper["r2"] = "withTransaction"
  /\ pending["r1"] # {} /\ pending["r2"] # {}

----------------------------------------------------------------------------
(* One request followed through the pipeline, over every route shape       *)
(* (with or without a queryValidator)                                      *)

\* code that runs outside any request (a timer set at startup) calls
\* getContext() / getLogger() / getRequestId()
OutsideGetContext ==
  /\ outsideSeen' = outsideSeen \cup {[created |-> nextId - 1, got |-> getContext("main")]}
  /\ outsideSeen' # outsideSeen
  /\ UNCHANGED <<pipelineVars, routingVars, genVars, orderVars, declared, aborted, abortAt>>

\* the client disconnects while the request is being served: req emits
\* 'close'; createHandler registers no listener and passes no signal on, so
\* nothing but the socket changes
Abort(r) ==
  /\ pc[r] \in Active
  /\ ~aborted[r]
  /\ aborted' = [aborted EXCEPT ![r] = TRUE]
  /\ abortAt' = [abortAt EXCEPT ![r] = Len(log[r])]
  /\ UNCHANGED <<pipelineVars, routingVars, genVars, orderVars, outsideSeen, declared>>

RequestNext ==
  \/ StartAny("r1")
  \/ CallAuthenticator("r1")
  \/ AuthResolve("r1")
  \/ AuthReject("r1")
  \/ RunValidator("r1")
  \/ EnterWrapper("r1")
  \/ BeginTransaction("r1")
  \/ HandlerWrite("r1")
  \/ HandlerReturn("r1")
  \/ HandlerThrow("r1")
  \/ Commit("r1")
  \/ Rollback("r1")
  \/ Respond("r1")
  \/ OutsideGetContext
  \/ Abort("r1")

RequestSpec == Init /\ [][RequestNext]_vars

\* C11: on a route declared with a queryValidator, the queryValidator has
\* returned before the handler is called and params.query is the value it
\* returned; when the queryValidator rejects the query the handler is not
\* called and the response is the ValidationFailed envelope (HTTP 400, code
\* VALIDATION_FAILED).
C11_QueryValidatorRuns ==
  \A r \in Reqs :
    query[r].validator =>
      /\ \A i \in Calls(r, "handler", "call") :
           \E j \in Calls(r, "queryValidator", "return") :
             j < i /\ Params(r).query = log[r][j].val[1]
      /\ (ValidateQuery(query[r].raw) = None /\ pc[r] = "done") =>
           /\ Calls(r, "handler", "call") = {}
           /\ response[r].status = 400
           /\ response[r].code = ERROR_CODES.VALIDATION_FAILED

\* C12: while the handler executes inside withTransaction or withClient,
\* getDb() returns the database handle of that scope; before the wrapper
\* scope is entered and after it is left getDb() fails.
C12_GetDbReturnsScopeHandle ==
  \A r \in Reqs :
    /\ (pc[r] = "invoking" /\ wrapper[r] \in {"withTransaction", "withClient"}) =>
         getDb(r) = handle[r]
    /\ (pc[r] \in {"running", "authenticating", "settled", "done"}) =>
         getDb(r) \in {NoRequestContext, NoDatabaseContext}

\* C16: getContext() (and getLogger(), getRequestId(), which read it)
\* called while a request executes returns that request's context, and
\* called outside any request scope it fails with the no-context error (0):
\* never the context of a request in flight or of an earlier one.
C16_GetContextOrFail ==
  /\ \A r \in Reqs :
       /\ pc[r] \in Active => (getContext(r) = requestId[r] /\ requestId[r] # 0)
       /\ observed[r] \subseteq {requestId[r]}
  /\ \A call \in outsideSeen : call.got = 0

\* getContext() was called outside any request while a request, whose
\* handler has read its own context, was in flight
C16_Witness ==
  /\ \E call \in outsideSeen : call.created = 1
  /\ pc["r1"] = "invoking"
  /\ observed["r1"] = {requestId["r1"]}

\* C20: once the transport has aborted a request whose pipeline is in
\* progress, the pipeline starts no further stage (validator, handler), a
\* transaction of the request is rolled back (none of its writes is in the
\* table afterwards), and no response is written for the request.
C20_AbortStopsPipeline ==
  \A r \in Reqs :
    aborted[r] =>
      /\ \A i \in Calls(r, "validator", "call") \cup Calls(r, "handler", "call") :
           i <= abortAt[r]
      /\ (wrapper[r] = "withTransaction" /\ pc[r] \in Finished) =>
           written[r] \cap table = {}
      /\ response[r] = NoResponse

\* the HTTP status the error taxonomy fixes for each kind of failure
StatusOfKind(kind) ==
  CASE kind = "AuthenticationError" -> 401
    [] kind = "ValidationError" -> 400
    [] kind = "NotFoundError" -> 404
    [] kind = "ConflictError" -> 409
    [] OTHER -> 500

\* C15: every failure response carries the HTTP status fixed by the kind of
\* the failure raised during the request: AuthenticationFailed 401,
\* ValidationFailed 400, NotFound 404, Conflict 409, anything else 500.
C15_StatusByKind ==
  \A r \in Reqs :
    \A i \in Calls(r, "handler", "throw") :
      pc[r] = "done" => response[r].status = StatusOfKind(log[r][i].val[1])

----------------------------------------------------------------------------
(* The generated Express application (generator/handler-emitter.ts and     *)
(* templates/): one request through the emitted middleware chain           *)

\* ERROR_CODES of the emitted application
GEN_ERROR_CODES ==
  [ AUTHENTICATION_FAILED |-> 1001, INVALID_TOKEN |-> 1002, TOKEN_EXPIRED |-> 1003,
    VALIDATION_FAILED |-> 2001, INVALID_REQUEST_BODY |-> 2002,
    INVALID_QUERY_PARAMETERS |-> 2003, RESOURCE_NOT_FOUND |-> 3001,
    RESOURCE_CONFLICT |-> 3002, INTERNAL_SERVER_ERROR |-> 5001 ]

\* the emitted createErrorResponse(statusCode, errorCode, message), sent
\* with res.status(statusCode): { status_code, error_code, message }
GenErrorResponse(status, code, message) ==
  [status |-> status, success |-> JsonString("absent"), type |-> None,
   code |-> code, message |-> message, data |-> None]

\* res.json(result) of an application generated without wrapResponses
RawResult(data) ==
  [status |-> 200, success |-> JsonString("absent"), type |-> None,
   code |-> 0, message |-> None, data |-> data]

\* err.message || 'Internal Server Error'
MessageOrDefault(message) ==
  IF message = "" THEN "Internal Server Error" ELSE message

\* routes of one application that share an authenticator function at most
MaxSharing == 3

\* analyzeMiddleware(routes, hoistThreshold = 3): the default threshold
hoistThreshold == 3

\* the routes of the generated application; sharing is the number of the
\* application's routes whose authenticator has the function name of this
\* route's authenticator (0 for a route without authenticator)
GenRoutes ==
  { route \in [type : RouteTypes, queryValidator : BOOLEAN, sharing : 0..MaxSharing] :
      (route.sharing = 0) <=> (route.type \notin {"authenticated", "full"}) }

\* isAuthenticatorHoisted(routeInfo, analyzed): the route has an
\* authenticator and analyzeMiddleware kept its name, i.e. at least
\* hoistThreshold routes use it
isAuthenticatorHoisted(route) ==
  /\ route.type \in {"authenticated", "full"}
  /\ route.sharing >= hoistThreshold

\* buildMiddlewareChain(routeInfo, analyzed); emitRouter puts nothing in
\* front of the routes it emits
MiddlewareChain(route) ==
  (IF route.type \in {"authenticated", "full"} /\ ~isAuthenticatorHoisted(route)
     THEN <<"auth">> ELSE <<>>)
  \o (IF route.type \in {"validated", "full"} THEN <<"validation">> ELSE <<>>)
  \o (IF route.queryValidator THEN <<"queryValidation">> ELSE <<>>)

GenStage ==
  IF genIx \in 1..Len(MiddlewareChain(genRoute))
    THEN MiddlewareChain(genRoute)[genIx] ELSE "handler"

\* buildParamsObject(route)
GenParams ==
  IF genRoute.queryValidator THEN <<"url", genLocals.fossylQuery>> ELSE <<"url">>

\* buildHandlerCall(route): the arguments of the emitted handler call
GenHandlerArgs ==
  CASE genRoute.type = "full" -> GenParams \o <<genLocals.fossylAuth, genLocals.fossylBody>>
    [] genRoute.type = "authenticated" -> GenParams \o <<genLocals.fossylAuth>>
    [] genRoute.type = "validated" -> GenParams \o <<genLocals.fossylBody>>
    [] OTHER -> GenParams

\* errors a handler of the generated application may throw; BareError is
\* new Error() with an empty message
GenHandlerErrors == HandlerErrors \cup {"BareError"}

GenMessageOf(kind) == IF kind = "BareError" THEN "" ELSE MessageOf(kind)

\* the application receives a request for one of its routes
GenStart ==
  /\ genPc = "idle"
  /\ \E w \in BOOLEAN, route \in GenRoutes, h \in Headers,
        b \in RawBodies \cup {None}, q \in QueryOptions :
       /\ RequestFor(route.type, h, b)
       /\ q.validator = route.queryValidator
       /\ genWrap' = w
       /\ genRoute' = route
       /\ genReq' = [headers |-> h, body |-> b, query |-> q.raw]
  /\ genIx' = 1
  /\ genPc' = "chain"
  /\ UNCHANGED <<genLocals, genError, genLog, genResponse>>
  /\ UNCHANGED <<pipelineVars, routingVars, auxVars, orderVars>>

\* createAuthMiddleware(authenticator): next() with req.fossylAuth set, or
\* 401 for whatever the authenticator throws
GenAuthMiddleware ==
  /\ genPc = "chain"
  /\ GenStage = "auth"
  /\ IF Authenticate(genReq.headers) # None
       THEN /\ genLocals' = [genLocals EXCEPT !.fossylAuth = Authenticate(genReq.headers)]
            /\ genLog' = Append(genLog, Event("return", "authenticator",
                                              <<Authenticate(genReq.headers)>>))
            /\ genIx' = genIx + 1
            /\ UNCHANGED <<genPc, genResponse>>
       ELSE /\ \E k \in AuthErrors :
                 /\ genLog' = Append(genLog, Event("throw", "authenticator", <<k>>))
                 /\ genResponse' =
                      GenErrorResponse(401, GEN_ERROR_CODES.AUTHENTICATION_FAILED, MessageOf(k))
            /\ genPc' = "done"
            /\ UNCHANGED <<genLocals, genIx>>
  /\ UNCHANGED <<genWrap, genRoute, genReq, genError>>
  /\ UNCHANGED <<pipelineVars, routingVars, auxVars, orderVars>>

\* createValidationMiddleware(validator): next() with req.fossylBody set, or
\* 400 for whatever the validator throws
GenValidationMiddleware ==
  /\ genPc = "chain"
  /\ GenStage = "validation"
  /\ IF Validate(genReq.body) # None
       THEN /\ genLocals' = [genLocals EXCEPT !.fossylBody = Validate(genReq.body)]
            /\ genLog' = Append(genLog, Event("return", "validator",
                                              <<Validate(genReq.body)>>))
            /\ genIx' = genIx + 1
            /\ UNCHANGED <<genPc, genResponse>>
       ELSE /\ \E k \in ValidatorErrors :
                 /\ genLog' = Append(genLog, Event("throw", "validator", <<k>>))
                 /\ genResponse' =
                      GenErrorResponse(400, GEN_ERROR_CODES.VALIDATION_FAILED, MessageOf(k))
            /\ genPc' = "done"
            /\ UNCHANGED <<genLocals, genIx>>
  /\ UNCHANGED <<genWrap, genRoute, genReq, genError>>
  /\ UNCHANGED <<pipelineVars, routingVars, auxVars, orderVars>>

\* createQueryValidationMiddleware(validator): next() with req.fossylQuery
\* set, or 400 for whatever the validator throws
GenQueryValidationMiddleware ==
  /\ genPc = "chain"
  /\ GenStage = "queryValidation"
  /\ IF ValidateQuery(genReq.query) # None
       THEN /\ genLocals' = [genLocals EXCEPT !.fossylQuery = ValidateQuery(genReq.query)]
            /\ genLog' = Append(genLog, Event("return", "queryValidator",
                                              <<ValidateQuery(genReq.query)>>))
            /\ genIx' = genIx + 1
            /\ UNCHANGED <<genPc, genResponse>>
       ELSE /\ \E k \in ValidatorErrors :
                 /\ genLog' = Append(genLog, Event("throw", "queryValidator", <<k>>))
                 /\ genResponse' =
                      GenErrorResponse(400, GEN_ERROR_CODES.INVALID_QUERY_PARAMETERS, MessageOf(k))
            /\ genPc' = "done"
            /\ UNCHANGED <<genLocals, genIx>>
  /\ UNCHANGED <<genWrap, genRoute, genReq, genError>>
  /\ UNCHANGED <<pipelineVars, routingVars, auxVars, orderVars>>

\* the emitted route handler: try { const result = await handler(...)
GenCallHandler ==
  /\ genPc = "chain"
  /\ GenStage = "handler"
  /\ genLog' = Append(genLog, Event("call", "handler", GenHandlerArgs))
  /\ genPc' = "handler"
  /\ UNCHANGED <<genWrap, genRoute, genReq, genIx, genLocals, genError, genResponse>>
  /\ UNCHANGED <<pipelineVars, routingVars, auxVars, orderVars>>

\* the handler resolves: res.json(wrapResponse(result)) or res.json(result)
GenHandlerReturn ==
  /\ genPc = "handler"
  /\ genLog' = Append(genLog, Event("return", "handler", <<HandlerResult("r1")>>))
  /\ genResponse' = IF genWrap THEN wrapResponse(HandlerResult("r1"))
                               ELSE RawResult(HandlerResult("r1"))
  /\ genPc' = "done"
  /\ UNCHANGED <<genWrap, genRoute, genReq, genIx, genLocals, genError>>
  /\ UNCHANGED <<pipelineVars, routingVars, auxVars, orderVars>>

\* the handler rejects: } catch (error) { next(error); }
GenHandlerThrow ==
  /\ genPc = "handler"
  /\ \E k \in GenHandlerErrors :
       /\ genLog' = Append(genLog, Event("throw", "handler", <<k>>))
       /\ genError' = k
  /\ genPc' = "error"
  /\ UNCHANGED <<genWrap, genRoute, genReq, genIx, genLocals, genResponse>>
  /\ UNCHANGED <<pipelineVars, routingVars, auxVars, orderVars>>

\* emitErrorHandler(): the global error handler answers 500 with
\* err.message || 'Internal Server Error'
GenErrorHandler ==
  /\ genPc = "error"
  /\ genResponse' = GenErrorResponse(500, GEN_ERROR_CODES.INTERNAL_SERVER_ERROR,
                                     MessageOrDefault(GenMessageOf(genError)))
  /\ genPc' = "done"
  /\ UNCHANGED <<genWrap, genRoute, genReq, genIx, genLocals, genError, genLog>>
  /\ UNCHANGED <<pipelineVars, routingVars, auxVars, orderVars>>

GenNext ==
  \/ GenStart
  \/ GenAuthMiddleware
  \/ GenValidationMiddleware
  \/ GenQueryValidationMiddleware
  \/ GenCallHandler
  \/ GenHandlerReturn
  \/ GenHandlerThrow
  \/ GenErrorHandler

GenInit ==
  /\ database = [present |-> FALSE, defaultTransaction |-> FALSE]
  /\ PipelineInit
  /\ RoutingIdle
  /\ GenIdle

GenSpec == GenInit /\ [][GenNext]_vars

\* errors the error taxonomy recognizes
TaxonomyErrors == {"AuthenticationError", "ValidationError"}

\* the 500 body of the runtime adapter does not depend on the error: every
\* handler error outside the taxonomy is answered with the same envelope,
\* which does not carry the error's message (holds under Spec)
RuntimeUnknownErrorBodyFixed ==
  \A r \in Reqs :
    \A i \in Calls(r, "handler", "throw") :
      (pc[r] = "done" /\ log[r][i].val[1] \notin TaxonomyErrors) =>
        /\ response[r] = createErrorResponse(500, ERROR_CODES.INTERNAL_ERROR,
                                             "Internal server error")
        /\ response[r].message # MessageOf(log[r][i].val[1])

\* C14: every handler error outside the taxonomy is answered 500 with a
\* body that is the same for every such error and never carries the error's
\* own message, in the runtime handler and in the generated application's
\* global error handler alike (here: the generated application).
C14_UnknownErrorNotLeaked ==
  (genPc = "done" /\ genError # None /\ genError \notin TaxonomyErrors) =>
    /\ genResponse.status = 500
    /\ genResponse = GenErrorResponse(500, GEN_ERROR_CODES.INTERNAL_SERVER_ERROR,
                                      "Internal Server Error")
    /\ (GenMessageOf(genError) # "" => genResponse.message # GenMessageOf(genError))

----------------------------------------------------------------------------
(* Route construction: createEndpoint(path).get/post/put/delete            *)

\* a route declaration is compiled and, when it type-checks, evaluated
CreateEndpoint ==
  /\ \E verb \in Verbs, config \in Configs :
       declared' =
         IF TypeChecks(verb, config)
           THEN [verb |-> verb, config |-> config, outcome |-> "route",
                 route |-> createEndpoint(verb, config)]
           ELSE [verb |-> verb, config |-> config, outcome |-> "rejected",
                 route |-> NoEndpointRoute]
  /\ UNCHANGED <<pipelineVars, routingVars, genVars, orderVars, outsideSeen, aborted, abortAt>>

EndpointSpec == GenInit /\ [][CreateEndpoint]_vars

\* C17: a declaration is either rejected when the route is constructed, or
\* the route it yields satisfies the verb invariant: a GET or DELETE route
\* carries no body validator, a POST or PUT route carries one.
C17_VerbInvariant ==
  declared.outcome = "route" =>
    /\ declared.route.method \in {"GET", "DELETE"} =>
         declared.route.validator # "function"
    /\ declared.route.method \in {"POST", "PUT"} =>
         declared.route.validator = "function"

\* C18: a constructed route has one of the four types, its type is
\* authenticated or full exactly when it carries a callable authenticator
\* and validated or full exactly when it carries a callable body validator,
\* so every function a case of executeRoute calls is there.
C18_TypeAgreesWithFunctions ==
  declared.outcome = "route" =>
    LET route == declared.route IN
      /\ route.type \in RouteTypes
      /\ route.type \in {"authenticated", "full"} <=> route.authenticator = "function"
      /\ route.type \in {"validated", "full"} <=> route.validator = "function"
      /\ \A i \in 1..Len(RouteStages(route.type)) :
           /\ RouteStages(route.type)[i] = "authenticator" =>
                route.authenticator = "function"
           /\ RouteStages(route.type)[i] = "validator" =>
                route.validator = "function"

----------------------------------------------------------------------------
(* Route registration and dispatch                                         *)

\* register(routes): sort, group, mount one router per group
Register ==
  /\ ~registered
  /\ \E routes \in RouteSeqs :
       /\ sorted' = sortRoutes(routes)
       /\ mounted' = LET groups == groupRoutes(sortRoutes(routes))
                     IN [ g \in 1..Len(groups) |-> MountGroup(groups[g]) ]
  /\ registered' = TRUE
  /\ UNCHANGED <<lastReq, handledBy>>
  /\ UNCHANGED pipelineVars
  /\ UNCHANGED <<genVars, auxVars, orderVars>>

\* the app receives a request and hands it to the first matching layer
Dispatch ==
  /\ registered
  /\ \E req \in Requests :
       /\ lastReq' = req
       /\ handledBy' = DispatchMounted(mounted, req)
  /\ UNCHANGED <<registered, sorted, mounted>>
  /\ UNCHANGED pipelineVars
  /\ UNCHANGED <<genVars, auxVars, orderVars>>

RouteInit ==
  /\ database = [present |-> FALSE, defaultTransaction |-> FALSE]
  /\ PipelineInit
  /\ RoutingIdle
  /\ GenIdle

RouteNext == Register \/ Dispatch

RouteSpec == RouteInit /\ [][RouteNext]_vars

----------------------------------------------------------------------------
(* Properties of route ordering and dispatch (checked under RouteSpec)     *)

\* C5: after register() the route that answers a request is the first
\* route in sortRoutes order whose method and path template match it.
C5_GroupingKeepsMatchOrder ==
  (registered /\ lastReq # NoRequest) => handledBy = FirstMatch(sorted, lastReq)

\* two templates that can match the same path: same length, equal literals
\* wherever both have a literal
CanMatchSamePath(a, b) ==
  /\ Len(a) = Len(b)
  /\ \A i \in 1..Len(a) : (~IsParam(a[i]) /\ ~IsParam(b[i])) => a[i] = b[i]

\* the first position where one template has a literal and the other a
\* named segment, 0 if there is none
FirstMixed(a, b) ==
  LET mixed == { i \in 1..Min(Len(a), Len(b)) : IsParam(a[i]) # IsParam(b[i]) }
  IN IF mixed = {} THEN 0 ELSE CHOOSE i \in mixed : \A j \in mixed : i <= j

\* C6: of two routes whose templates can match the same path, the one with
\* the literal at the first literal-versus-named position is sorted first;
\* the names of the parameters never decide.
C6_LiteralAtFirstDifferenceFirst ==
  \A i, j \in 1..Len(sorted) :
    LET a == sorted[i].path
        b == sorted[j].path
    IN ( /\ CanMatchSamePath(a, b)
         /\ FirstMixed(a, b) # 0
         /\ ~IsParam(a[FirstMixed(a, b)]) ) => i < j

\* a and b are identical up to a position where a has a literal segment and
\* b a named one
LiteralThenNamed(a, b) ==
  \E k \in 1..Min(Len(a), Len(b)) :
    /\ \A i \in 1..(k - 1) : a[i] = b[i]
    /\ ~IsParam(a[k]) /\ IsParam(b[k])

\* C7: a template that is identical to another up to a position where it
\* has a literal and the other a named segment is sorted before the other,
\* for every input order.
C7_StaticBeforeDynamic ==
  \A i, j \in 1..Len(sorted) :
    LiteralThenNamed(sorted[i].path, sorted[j].path) => i < j

\* GET /users/list and GET /users/:id were registered together
C7_Witness ==
  /\ registered
  /\ \E i, j \in 1..Len(sorted) :
       /\ sorted[i] = [method |-> "GET", path |-> <<Lit("users"), Lit("list")>>]
       /\ sorted[j] = [method |-> "GET", path |-> <<Lit("users"), Par("id")>>]

----------------------------------------------------------------------------
(* The sort and group functions applied to one route collection           *)

\* the collections the pure functions are applied to: every template under
\* GET, and /users under POST as well (two routes with one path)
ArrangedRoutes == { route \in Routes : route.method = "GET" \/ route.path = <<Lit("users")>> }
ArrangedSeqs ==
  UNION { { rs \in [1..n -> ArrangedRoutes] : \A i, j \in 1..n : rs[i] = rs[j] => i = j }
          : n \in 0..MaxRoutes }

\* a route collection is handed (once) to the live adapter's sortRoutes, to
\* the generator's sortRoutesBySpecificity and to groupRoutes, and the
\* groups obtained are grouped again
Arrange ==
  /\ given = <<>>
  /\ \E routes \in ArrangedSeqs :
       /\ given' = routes
       /\ liveOrder' = sortRoutes(routes)
       /\ genOrder' = sortRoutesBySpecificity(routes)
       /\ grouped' = groupRoutes(routes)
       /\ regrouped' = groupRoutes(Flatten(groupRoutes(routes)))
  /\ UNCHANGED <<calls, stack>>
  /\ UNCHANGED <<pipelineVars, routingVars, genVars, auxVars>>

OrderSpec == GenInit /\ [][Arrange]_vars

\* position of a route in a sequence of distinct routes
IndexOf(s, x) == CHOOSE i \in 1..Len(s) : s[i] = x

\* C21: for every route collection the live dispatcher's sortRoutes and the
\* generator's sortRoutesBySpecificity put every pair of routes in the same
\* relative order.
C21_SortersAgree ==
  \A i, j \in 1..Len(given) :
    (IndexOf(liveOrder, given[i]) < IndexOf(liveOrder, given[j]))
      <=> (IndexOf(genOrder, given[i]) < IndexOf(genOrder, given[j]))

\* C22: grouping is idempotent: the routes of groupRoutes(routes), taken
\* group by group and grouped again, give the same groups: same prefixes in
\* the same order, the same routes in the same order under each.
C22_GroupingIdempotent == regrouped = grouped

\* the collection gave two groups whose routes were interleaved in the
\* input, one of them with two routes
C22_Witness ==
  /\ Len(grouped) >= 2
  /\ Flatten(grouped) # given
  /\ \E g \in 1..Len(grouped) : Len(grouped[g].routes) >= 2

\* C23: groupRoutes makes a group other than the root group '/' only for a
\* prefix shared by at least two routes; a route whose prefix no other
\* route shares is put in the root group.
C23_GroupsNeedTwoRoutes ==
  \A g \in 1..Len(grouped) :
    grouped[g].prefix # <<>> => Len(grouped[g].routes) >= 2

\* the orders in which a collection of n routes can be given
Orderings(n) == { f \in [1..n -> 1..n] : \A i, j \in 1..n : f[i] = f[j] => i = j }

Sign(x) == IF x < 0 THEN -1 ELSE IF x > 0 THEN 1 ELSE 0

DistinctPaths(routes) ==
  \A i, j \in 1..Len(routes) : routes[i].path = routes[j].path => i = j

\* C24: on routes with pairwise distinct path templates the comparator of
\* sortRoutes is a strict total order (antisymmetric, transitive, zero only
\* for identical paths), and every permutation of the collection is sorted
\* to the same sequence.
C24_SortDeterministic ==
  DistinctPaths(given) =>
    /\ \A i, j \in 1..Len(given) :
         /\ Sign(CompareRoutes(given[i], given[j])) = -Sign(CompareRoutes(given[j], given[i]))
         /\ CompareRoutes(given[i], given[j]) = 0 <=> i = j
    /\ \A i, j, k \in 1..Len(given) :
         (CompareRoutes(given[i], given[j]) < 0 /\ CompareRoutes(given[j], given[k]) < 0)
           => CompareRoutes(given[i], given[k]) < 0
    /\ \A f \in Orderings(Len(given)) :
         sortRoutes([i \in 1..Len(given) |-> given[f[i]]]) = liveOrder

\* three routes with distinct paths, two of them differing only in the
\* name of a parameter, were given in an order that is not the sorted one
C24_Witness ==
  /\ Len(given) = 3 /\ DistinctPaths(given)
  /\ liveOrder # given
  /\ \E i, j \in 1..3 :
       /\ given[i].path = <<Lit("users"), Par("id")>>
       /\ given[j].path = <<Lit("users"), Par("userId")>>

-----------------------------------------------------------------------------
(* createHandler: the metrics callbacks                                    *)

\* options.metrics?.onRequestStart(metricsInfo) throws: the call stands
\* before the try block, so the async callback rejects with nothing caught;
\* requestContext.run is never reached and nothing is written to res
StartMetricsThrow(r) ==
  /\ pc[r] = "idle"
  /\ \E t \in RouteTypes, h \in Headers, b \in RawBodies \cup {None} :
       /\ RequestFor(t, h, b)
       /\ rtype' = [rtype EXCEPT ![r] = t]
       /\ headers' = [headers EXCEPT ![r] = h]
       /\ rawBody' = [rawBody EXCEPT ![r] = b]
  /\ requestId' = [requestId EXCEPT ![r] = nextId]
  /\ nextId' = nextId + 1
  /\ metricsLog' = [metricsLog EXCEPT ![r] = Append(@, "onRequestStart")]
  /\ pc' = [pc EXCEPT ![r] = "unhandled"]
  /\ UNCHANGED <<database, query, store, observed, log, stageIx, wrapper, handle,
                 pending, written, table, outcome, response>>
  /\ UNCHANGED <<auth, body>>
  /\ UNCHANGED otherVars

\* the callback after the response throws. onRequestEnd stands inside the
\* try block after res.json: its exception enters the catch block, where
\* handleError writes to a response whose headers are sent, which throws
\* before onRequestError is reached. onRequestError stands in the catch
\* block after handleError: its exception rejects the async callback
RespondMetricsThrow(r) ==
  /\ pc[r] = "settled"
  /\ response' = [response EXCEPT ![r] =
                    IF outcome[r].kind = "value"
                      THEN wrapResponse(outcome[r].val)
                      ELSE handleError(outcome[r].val)]
  /\ metricsLog' = [metricsLog EXCEPT ![r] =
                      Append(@, IF outcome[r].kind = "value"
                                  THEN "onRequestEnd" ELSE "onRequestError")]
  /\ pc' = [pc EXCEPT ![r] = "unhandled"]
  /\ UNCHANGED <<database, rtype, headers, rawBody, requestId, nextId, store,
                 observed, log, stageIx, wrapper, handle, pending, written,
                 table, outcome>>
  /\ UNCHANGED <<auth, body, query>>
  /\ UNCHANGED otherVars

MetricsNext ==
  \/ Start("r1")
  \/ CallAuthenticator("r1")
  \/ AuthResolve("r1")
  \/ AuthReject("r1")
  \/ RunValidator("r1")
  \/ EnterWrapper("r1")
  \/ BeginTransaction("r1")
  \/ HandlerWrite("r1")
  \/ HandlerReturn("r1")
  \/ HandlerThrow("r1")
  \/ Commit("r1")
  \/ Rollback("r1")
  \/ Respond("r1")
  \/ StartMetricsThrow("r1")
  \/ RespondMetricsThrow("r1")

MetricsSpec == Init /\ [][MetricsNext]_vars

\* the states in which createHandler's callback has ended for the request
Ended == {"done", "unhandled"}

\* C25: every request handled by createHandler reaches exactly one terminal
\* outcome: either the success response was sent and onRequestEnd was
\* called, or an error response was sent and onRequestError was called;
\* never both callbacks, and always after onRequestStart.
C25_OneTerminalOutcome ==
  \A r \in Reqs :
    /\ pc[r] \in Ended =>
         \/ /\ response[r] # NoResponse /\ response[r].status = 200
            /\ metricsLog[r] = <<"onRequestStart", "onRequestEnd">>
         \/ /\ response[r] # NoResponse /\ response[r].status # 200
            /\ metricsLog[r] = <<"onRequestStart", "onRequestError">>
    /\ metricsLog[r] # <<>> => metricsLog[r][1] = "onRequestStart"
    /\ response[r] # NoResponse => metricsLog[r] # <<>>

-----------------------------------------------------------------------------
(* withTransaction: the COMMIT fails                                       *)

\* execute(cb) after cb resolved, when the COMMIT fails (a deferred
\* constraint, a serialization failure, a lost connection): nothing of the
\* transaction is applied and execute rejects
CommitFail(r) ==
  /\ pc[r] = "committing"
  /\ pending' = [pending EXCEPT ![r] = {}]
  /\ log' = [log EXCEPT ![r] = Append(@, Event("throw", "commit", <<"CommitError">>))]
  /\ outcome' = [outcome EXCEPT ![r] = ExecuteSettles(FALSE, Returned(r, "handler"))]
  /\ pc' = [pc EXCEPT ![r] = "settled"]
  /\ UNCHANGED <<database, rtype, headers, rawBody, requestId, nextId, store,
                 observed, stageIx, wrapper, handle, written, table, response>>
  /\ UNCHANGED <<auth, body, query>>
  /\ UNCHANGED metricsLog
  /\ UNCHANGED otherVars

CommitNext ==
  \/ Start("r1")
  \/ CallAuthenticator("r1")
  \/ AuthResolve("r1")
  \/ AuthReject("r1")
  \/ RunValidator("r1")
  \/ EnterWrapper("r1")
  \/ BeginTransaction("r1")
  \/ HandlerWrite("r1")
  \/ HandlerReturn("r1")
  \/ HandlerThrow("r1")
  \/ Commit("r1")
  \/ CommitFail("r1")
  \/ Rollback("r1")
  \/ Respond("r1")

CommitSpec == Init /\ [][CommitNext]_vars

\* C26: on a route that runs in withTransaction, a response is sent only
\* after the transaction has settled; the success envelope is sent only
\* after the transaction committed, with all of the handler's writes
\* applied; when the handler throws or the COMMIT fails the response is an
\* error envelope and none of the handler's writes is applied.
C26_SuccessOnlyAfterCommit ==
  \A r \in Reqs :
    wrapper[r] = "withTransaction" =>
      /\ response[r] # NoResponse =>
           /\ pending[r] = {}
           /\ outcome[r].kind # None
      /\ (response[r] # NoResponse /\ response[r].status = 200) =>
           /\ written[r] \subseteq table
           /\ Calls(r, "handler", "throw") = {}
           /\ Calls(r, "commit", "throw") = {}
      /\ (pc[r] = "done" /\ Calls(r, "handler", "throw") \cup Calls(r, "commit", "throw") # {}) =>
           /\ response[r].status # 200
           /\ response[r].success = JsonString("false")
           /\ written[r] \cap table = {}

\* a handler wrote and returned, the COMMIT failed, and the response is the
\* 500 envelope
C26_Witness ==
  \E r \in Reqs :
    /\ wrapper[r] = "withTransaction" /\ pc[r] = "done"
    /\ written[r] # {} /\ Calls(r, "handler", "return") # {}
    /\ Calls(r, "commit", "throw") # {}
    /\ response[r].status = 500

\* C27: withTransaction / withClient is called only after the authenticator
\* and the body validator of the route have both returned: a request whose
\* authenticator or validator threw has no wrapper, no database handle and
\* no write, and a request inside a wrapper has passed both.
C27_NoScopeForRejected ==
  \A r \in Reqs :
    /\ (Calls(r, "authenticator", "throw") \cup Calls(r, "validator", "throw") # {}) =>
         /\ wrapper[r] = None
         /\ handle[r] = NoHandle
         /\ written[r] = {} /\ pending[r] = {}
    /\ wrapper[r] \in {"withTransaction", "withClient"} =>
         /\ rtype[r] \in {"full", "authenticated"} => Calls(r, "authenticator", "return") # {}
         /\ rtype[r] \in {"full", "validated"} => Calls(r, "validator", "return") # {}

\* with a database adapter, a request to a full route passed the
\* authenticator, was rejected by the validator and got its response with
\* no scope opened
C27_Witness ==
  \E r \in Reqs :
    /\ database.present /\ rtype[r] = "full" /\ pc[r] = "done"
    /\ Calls(r, "authenticator", "return") # {}
    /\ Calls(r, "validator", "throw") # {}
    /\ wrapper[r] = None

-----------------------------------------------------------------------------
(* adapter.ts: register() called more than once on one adapter             *)

\* register() calls made on one adapter at most
MaxCalls == 2

\* routes one of these calls is given at most
MaxCallRoutes == 2

\* the routes given to these calls: GET /users, POST /users, GET /users/:id
\* and GET /list, each mounted with a sub-path Express can match
CallRoutes ==
  { [method |-> "GET", path |-> <<Lit("users")>>],
    [method |-> "POST", path |-> <<Lit("users")>>],
    [method |-> "GET", path |-> <<Lit("users"), Par("id")>>],
    [method |-> "GET", path |-> <<Lit("list")>>] }

CallSeqs ==
  UNION { { rs \in [1..n -> CallRoutes] : \A i, j \in 1..n : rs[i] = rs[j] => i = j }
          : n \in 0..MaxCallRoutes }

\* an entry of the app's stack: a Router mounted under its prefix, or the
\* 404 handler, mounted without a path
RouterEntry(router) == [notFound |-> FALSE, router |-> router]
NotFoundEntry == [notFound |-> TRUE, router |-> [prefix |-> <<>>, layers |-> <<>>]]

\* one register(routes) call: app.use(group.prefix, router) for every group,
\* then app.use(404 handler), all appended to the app's stack; the request
\* dispatched before the call is forgotten
RegisterCall ==
  /\ Len(calls) < MaxCalls
  /\ \E routes \in CallSeqs :
       /\ calls' = Append(calls, routes)
       /\ stack' = LET groups == groupRoutes(sortRoutes(routes))
                   IN stack \o [ g \in 1..Len(groups) |-> RouterEntry(MountGroup(groups[g])) ]
                            \o <<NotFoundEntry>>
  /\ lastReq' = NoRequest
  /\ handledBy' = NoRoute
  /\ UNCHANGED <<registered, sorted, mounted>>
  /\ UNCHANGED <<given, liveOrder, genOrder, grouped, regrouped>>
  /\ UNCHANGED <<pipelineVars, genVars, auxVars>>

\* Express walks the stack in order: the 404 handler matches every request
\* and never calls next; a router answers when one of its layers matches.
\* NoRoute stands for Express's own final handler (empty stack).
DispatchStack(entries, req) ==
  LET hits == { i \in 1..Len(entries) :
                  \/ entries[i].notFound
                  \/ /\ PrefixMatches(entries[i].router.prefix, req.path)
                     /\ FirstLayer(entries[i].router, req) # 0 }
  IN IF hits = {} THEN NoRoute
     ELSE LET i == CHOOSE h \in hits : \A j \in hits : h <= j
          IN IF entries[i].notFound THEN NotFound
             ELSE entries[i].router.layers[FirstLayer(entries[i].router, req)].route

\* the app receives a request after the register() calls made so far
DispatchCall ==
  /\ calls # <<>>
  /\ \E req \in Requests :
       /\ lastReq' = req
       /\ handledBy' = DispatchStack(stack, req)
  /\ UNCHANGED <<registered, sorted, mounted>>
  /\ UNCHANGED pipelineVars
  /\ UNCHANGED <<genVars, auxVars, orderVars>>

CallsNext == RegisterCall \/ DispatchCall

CallsSpec == RouteInit /\ [][CallsNext]_vars

\* C28: after any sequence of register() calls on one adapter, a request
\* that matches a route given to any of the calls is answered by a route
\* handler and not by the 404 handler.
C28_LaterRoutesReachable ==
  lastReq # NoRequest =>
    \A c \in 1..Len(calls) :
      \A i \in 1..Len(calls[c]) :
        (calls[c][i].method = lastReq.method /\ MatchSegs(calls[c][i].path, lastReq.path))
          => handledBy \notin {NotFound, NoRoute}

-----------------------------------------------------------------------------
(* generator/handler-emitter.ts: getRouteRelativePath                      *)

\* fullPath.startsWith(prefix) for a prefix made of literal segments
StartsWithPrefix(path, prefix) ==
  /\ Len(prefix) <= Len(path)
  /\ \A i \in 1..Len(prefix) : ~IsParam(path[i]) /\ path[i].name = prefix[i]

\* getRouteRelativePath(fullPath, prefix): '/' when the two are equal, the
\* rest of the path with a '/' put in front when it lacks one, the full path
\* when the prefix does not lead it
getRouteRelativePath(path, prefix) ==
  IF StartsWithPrefix(path, prefix)
    THEN [slash |-> TRUE, segs |-> SubSeq(path, Len(prefix) + 1, Len(path))]
    ELSE [slash |-> TRUE, segs |-> path]

\* C29: for every route and its group in register(), the sub-path mounted
\* on the group's router begins with '/', the group prefix followed by the
\* sub-path is the route's path template, and the sub-path is the relative
\* path getRouteRelativePath computes for the same route and prefix.
C29_SubPathWellFormed ==
  \A g \in 1..Len(mounted) :
    \A i \in 1..Len(mounted[g].layers) :
      LET layer == mounted[g].layers[i]
          prefix == mounted[g].prefix
      IN /\ layer.subPath.slash
         /\ [ k \in 1..Len(prefix) |-> Lit(prefix[k]) ] \o layer.subPath.segs = layer.route.path
         /\ layer.subPath = getRouteRelativePath(layer.route.path, prefix)

-----------------------------------------------------------------------------
(* Properties of the middleware emitted for a route (checked under GenSpec) *)

\* C30: in the emitted application every route that has an authenticator
\* has that authenticator run as middleware before its handler, whether or
\* not the authenticator was marked as hoisted: the handler of an
\* authenticated or full route is called only after the authenticator
\* returned, with the value it returned.
C30_AuthenticatorAlwaysRuns ==
  genRoute.type \in {"authenticated", "full"} =>
    \A i \in 1..Len(genLog) :
      (genLog[i].fn = "handler" /\ genLog[i].ev = "call") =>
        /\ \E j \in 1..(i - 1) :
             genLog[j].fn = "authenticator" /\ genLog[j].ev = "return"
        /\ genLocals.fossylAuth # None

====
